---- MODULE Spec2Model ----
(***************************************************************************)
(* State-machine model of src/currency_tracker.py: the monitor loop main(), *)
(* the quote fetch get_current_rate(), the baseline resolution              *)
(* get_comparison_rate()/get_average_rate() and the retrying notifier       *)
(* send_email().  The external collaborators (yfinance, smtplib) are the    *)
(* environment: every call to them either raises or returns a value drawn   *)
(* from a small set.                                                        *)
(*                                                                          *)
(* Rates are floats in the program.  Here a rate is a fraction num/den so   *)
(* that the mean of a series is exact; den = 0 is NaN (the mean of an empty *)
(* pandas Series) and every ordered comparison with NaN is false.           *)
(***************************************************************************)
EXTENDS Integers, Sequences, FiniteSets, TLC

\* ------------------------------------------------------------------ bounds
MaxPrice == 2          \* quoted prices and closes are 1..MaxPrice
MaxSeriesLen == 2      \* a downloaded series has at most this many closes
MaxRetries == 3        \* send_email is exercised alone with max_retries 0..MaxRetries

\* ------------------------------------------------------- program constants
DefaultMaxRetries == 3
DefaultRetryDelay == 5
YearDays == 365
MonthDays == 30
DefaultCustomDays == 7
DefaultCustomValue == 0

Prices == 1..MaxPrice
InfoKeys == {"regularMarketPrice", "last"}
KnownTypes == {"YEAR_AVERAGE", "MONTH_AVERAGE", "CUSTOM_VALUE", "CUSTOM_DAYS_AVERAGE"}
AverageTypes == {"YEAR_AVERAGE", "MONTH_AVERAGE", "CUSTOM_DAYS_AVERAGE"}
Stages == {"init", "connect", "starttls", "login", "send_message", "exit"}

VARIABLES
    COMPARISON_TYPE, CUSTOM_VALUE, CUSTOM_DAYS, SMTP_SERVER,   \* configuration
    pc,                                                        \* program position
    current_rate, comparison_rate,                             \* locals of main
    info, rate, data, days,                                    \* locals of the fetch functions
    max_retries, attempt, exc, sock,                           \* locals of send_email
    orphan,                                                    \* an unreferenced connection is open
    quotePath, quoteResult, cmpPath, cmpResult, downloads,     \* what the cycle's fetches did
    sendCalls, attempts, failures, delays, delivered, raisedExc, \* what the cycle's send did
    logged, sleeps,                                            \* log entries and sleeps of the cycle
    prevLogged,                                                \* log entries of the cycle before
    retry_delay,                                               \* parameter of send_email
    delayLens,                                                 \* lengths of the cycle's retry delays
    fetched                                                    \* values the cycle's fetches returned

config == <<COMPARISON_TYPE, CUSTOM_VALUE, CUSTOM_DAYS, SMTP_SERVER>>
mainLocals == <<current_rate, comparison_rate>>
fetchLocals == <<info, rate, data, days>>
sendLocals == <<max_retries, attempt, exc, sock>>
fetchHist == <<quotePath, quoteResult, cmpPath, cmpResult, downloads>>
sendHist == <<sendCalls, attempts, failures, delays, delivered, raisedExc>>
vars == <<COMPARISON_TYPE, CUSTOM_VALUE, CUSTOM_DAYS, SMTP_SERVER, pc,
          current_rate, comparison_rate, info, rate, data, days,
          max_retries, attempt, exc, sock, orphan,
          quotePath, quoteResult, cmpPath, cmpResult, downloads,
          sendCalls, attempts, failures, delays, delivered, raisedExc, logged, sleeps,
          prevLogged, retry_delay, delayLens, fetched>>
callNotes == <<retry_delay, delayLens, fetched>>

\* ------------------------------------------------------------ float values
R(p) == [num |-> p, den |-> 1]
NaN == [num |-> 0, den |-> 0]
NoRate == [num |-> 0, den |-> 0 - 1]          \* a local that is not bound yet
IsNaN(a) == a.den = 0

RECURSIVE Sum(_)
Sum(s) == IF s = <<>> THEN 0 ELSE Head(s) + Sum(Tail(s))

RECURSIVE Gcd(_, _)
Gcd(a, b) == IF b = 0 THEN a ELSE Gcd(b, a % b)

\* the float num/den: a fraction in lowest terms, NaN for 0/0
Frac(num, den) ==
    IF den = 0 THEN [num |-> 0, den |-> 0]
    ELSE [num |-> num \div Gcd(num, den), den |-> den \div Gcd(num, den)]

\* data['Close'].mean(): the arithmetic mean; NaN for an empty series
Mean(s) == Frac(Sum(s), Len(s))

\* variant of LastClose: the oldest close instead of the most recent one
FirstClose(s) == R(s[1])

\* data['Close'].iloc[-1]
LastClose(s) == R(s[Len(s)])

\* variant of Less: a non-strict comparison
LessOrEqual(a, b) == a.den > 0 /\ b.den > 0 /\ a.num * b.den <= b.num * a.den

\* current_rate < comparison_rate on floats
Less(a, b) == a.den > 0 /\ b.den > 0 /\ a.num * b.den < b.num * a.den
SameValue(a, b) == a.den > 0 /\ b.den > 0 /\ a.num * b.den = b.num * a.den

\* the results the environment can hand back
Series == UNION {[1..n -> Prices] : n \in 0..MaxSeriesLen}
InfoDicts == UNION {[K -> Prices] : K \in SUBSET InfoKeys}
NoInfo == <<>>
NoData == <<>>
NoExc == [attempt |-> 0, stage |-> "none"]
NoFetch == [quote |-> NoRate, baseline |-> NoRate]

\* ----------------------------------------------------------------- Init
\* lines 35-42: the environment sets the configuration; a parameter that the
\* selected COMPARISON_TYPE does not read is left at its default
ConfigInit ==
    /\ COMPARISON_TYPE \in KnownTypes \cup {"WEEK_AVERAGE"}
    /\ CUSTOM_VALUE \in IF COMPARISON_TYPE = "CUSTOM_VALUE"
                          THEN {R(DefaultCustomValue), R(MaxPrice)}
                          ELSE {R(DefaultCustomValue)}
    /\ CUSTOM_DAYS \in IF COMPARISON_TYPE = "CUSTOM_DAYS_AVERAGE"
                         THEN {1, DefaultCustomDays}
                         ELSE {DefaultCustomDays}
    /\ SMTP_SERVER \in {"unset", "host"}

LocalsInit ==
    /\ current_rate = NoRate /\ comparison_rate = NoRate
    /\ info = NoInfo /\ rate = NoRate /\ data = NoData /\ days = 0
    /\ attempt = 0 /\ exc = NoExc /\ sock = "none"
    /\ orphan = FALSE
    /\ quotePath = "none" /\ quoteResult = "none"
    /\ cmpPath = "none" /\ cmpResult = "none" /\ downloads = {}
    /\ attempts = 0 /\ failures = 0 /\ delays = 0 /\ delivered = 0
    /\ raisedExc = NoExc
    /\ logged = {} /\ sleeps = 0 /\ prevLogged = {}
    /\ delayLens = {} /\ fetched = NoFetch

\* main() entered: the first cycle is about to call get_current_rate()
Init ==
    /\ ConfigInit
    /\ LocalsInit
    /\ pc = "get_current_rate"
    /\ max_retries = DefaultMaxRetries
    /\ retry_delay = DefaultRetryDelay
    /\ sendCalls = 0

\* ------------------------------------------------- get_current_rate()
\* main line 135 calls get_current_rate(); lines 47-50 read ticker.info,
\* which raises or yields a dict
GetInfo ==
    /\ pc = "get_current_rate"
    /\ \/ \E d \in InfoDicts :
            /\ info' = d
            /\ quotePath' = "info"
            /\ pc' = "gcr_select"
       \/ /\ info' = NoInfo
          /\ quotePath' = "info_raised"
          /\ pc' = "gcr_except"
    /\ UNCHANGED <<config, prevLogged, callNotes, mainLocals, rate, data, days, sendLocals,
                   orphan, quoteResult, cmpPath, cmpResult, downloads, sendHist,
                   logged, sleeps>>

\* lines 52-62: regularMarketPrice, else last, else the last close of a
\* one-day download, else ValueError
SelectRate ==
    /\ pc = "gcr_select"
    /\ IF "regularMarketPrice" \in DOMAIN info
         THEN /\ rate' = R(info["regularMarketPrice"])
              /\ quotePath' = "regularMarketPrice"
              /\ pc' = "gcr_return"
              /\ UNCHANGED <<data, downloads>>
         ELSE IF "last" \in DOMAIN info
         THEN /\ rate' = R(info["last"])
              /\ quotePath' = "last"
              /\ pc' = "gcr_return"
              /\ UNCHANGED <<data, downloads>>
         ELSE /\ downloads' = downloads \cup {"period_1d"}
              /\ \/ \E s \in Series :
                      /\ data' = s
                      /\ IF s # <<>>
                           THEN /\ rate' = LastClose(s)
                                /\ quotePath' = "close"
                                /\ pc' = "gcr_return"
                           ELSE /\ rate' = rate
                                /\ quotePath' = "download_empty"
                                /\ pc' = "gcr_except"
                 \/ /\ quotePath' = "download_raised"
                    /\ pc' = "gcr_except"
                    /\ UNCHANGED <<data, rate>>
    /\ UNCHANGED <<config, prevLogged, callNotes, mainLocals, info, days, sendLocals, orphan,
                   quoteResult, cmpPath, cmpResult, sendHist, logged, sleeps>>

\* lines 64-65: return rate; main binds current_rate and goes on to line 136
ReturnRate ==
    /\ pc = "gcr_return"
    /\ current_rate' = rate
    /\ quoteResult' = "value"
    /\ fetched' = [fetched EXCEPT !.quote = rate]
    /\ info' = NoInfo /\ rate' = NoRate /\ data' = NoData
    /\ pc' = "get_comparison_rate"
    /\ UNCHANGED <<config, prevLogged, retry_delay, delayLens, comparison_rate, days, sendLocals, orphan,
                   quotePath, cmpPath, cmpResult, downloads, sendHist, logged,
                   sleeps>>

\* variant of GcrExcept: the handler logs and returns None instead of re-raising
GcrExceptSwallow ==
    /\ pc = "gcr_except"
    /\ logged' = logged \cup {"quote_error"}
    /\ quoteResult' = "raised"
    /\ current_rate' = NoRate
    /\ info' = NoInfo /\ rate' = NoRate /\ data' = NoData
    /\ pc' = "get_comparison_rate"
    /\ UNCHANGED <<config, prevLogged, callNotes, comparison_rate, days, sendLocals, orphan,
                   quotePath, cmpPath, cmpResult, downloads, sendHist, sleeps>>

\* lines 66-68: log the error and re-raise it into main's try block
GcrExcept ==
    /\ pc = "gcr_except"
    /\ logged' = logged \cup {"quote_error"}
    /\ quoteResult' = "raised"
    /\ info' = NoInfo /\ rate' = NoRate /\ data' = NoData
    /\ pc' = "main_except"
    /\ UNCHANGED <<config, prevLogged, callNotes, mainLocals, days, sendLocals, orphan,
                   quotePath, cmpPath, cmpResult, downloads, sendHist, sleeps>>

\* variant of GetComparisonRate: the CUSTOM_VALUE and CUSTOM_DAYS_AVERAGE branches are swapped
GetComparisonRateSwapped ==
    /\ pc = "get_comparison_rate"
    /\ IF COMPARISON_TYPE = "YEAR_AVERAGE"
         THEN /\ days' = YearDays /\ pc' = "gar_download"
              /\ cmpPath' = "average"
              /\ UNCHANGED <<comparison_rate, cmpResult, fetched>>
         ELSE IF COMPARISON_TYPE = "MONTH_AVERAGE"
         THEN /\ days' = MonthDays /\ pc' = "gar_download"
              /\ cmpPath' = "average"
              /\ UNCHANGED <<comparison_rate, cmpResult, fetched>>
         ELSE IF COMPARISON_TYPE = "CUSTOM_DAYS_AVERAGE"
         THEN /\ comparison_rate' = CUSTOM_VALUE
              /\ cmpPath' = "custom_value"
              /\ cmpResult' = "value"
              /\ fetched' = [fetched EXCEPT !.baseline = CUSTOM_VALUE]
              /\ pc' = "compare"
              /\ UNCHANGED days
         ELSE IF COMPARISON_TYPE = "CUSTOM_VALUE"
         THEN /\ days' = CUSTOM_DAYS /\ pc' = "gar_download"
              /\ cmpPath' = "average"
              /\ UNCHANGED <<comparison_rate, cmpResult, fetched>>
         ELSE /\ cmpPath' = "unknown_type"
              /\ cmpResult' = "raised"
              /\ pc' = "main_except"
              /\ UNCHANGED <<comparison_rate, days, fetched>>
    /\ UNCHANGED <<config, prevLogged, retry_delay, delayLens, current_rate, info, rate, data, sendLocals,
                   orphan, quotePath, quoteResult, downloads, sendHist, logged,
                   sleeps>>

\* variant of GetComparisonRate: an unknown type is treated as YEAR_AVERAGE
GetComparisonRateDefaulting ==
    /\ pc = "get_comparison_rate"
    /\ IF COMPARISON_TYPE = "YEAR_AVERAGE"
         THEN /\ days' = YearDays /\ pc' = "gar_download"
              /\ cmpPath' = "average"
              /\ UNCHANGED <<comparison_rate, cmpResult, fetched>>
         ELSE IF COMPARISON_TYPE = "MONTH_AVERAGE"
         THEN /\ days' = MonthDays /\ pc' = "gar_download"
              /\ cmpPath' = "average"
              /\ UNCHANGED <<comparison_rate, cmpResult, fetched>>
         ELSE IF COMPARISON_TYPE = "CUSTOM_VALUE"
         THEN /\ comparison_rate' = CUSTOM_VALUE
              /\ cmpPath' = "custom_value"
              /\ cmpResult' = "value"
              /\ fetched' = [fetched EXCEPT !.baseline = CUSTOM_VALUE]
              /\ pc' = "compare"
              /\ UNCHANGED days
         ELSE IF COMPARISON_TYPE = "CUSTOM_DAYS_AVERAGE"
         THEN /\ days' = CUSTOM_DAYS /\ pc' = "gar_download"
              /\ cmpPath' = "average"
              /\ UNCHANGED <<comparison_rate, cmpResult, fetched>>
         ELSE /\ days' = YearDays /\ pc' = "gar_download"
              /\ cmpPath' = "average"
              /\ UNCHANGED <<comparison_rate, cmpResult, fetched>>
    /\ UNCHANGED <<config, prevLogged, retry_delay, delayLens, current_rate, info, rate, data, sendLocals,
                   orphan, quotePath, quoteResult, downloads, sendHist, logged,
                   sleeps>>

\* ----------------------------------- get_comparison_rate(), get_average_rate()
\* lines 70-81: dispatch on COMPARISON_TYPE
GetComparisonRate ==
    /\ pc = "get_comparison_rate"
    /\ IF COMPARISON_TYPE = "YEAR_AVERAGE"
         THEN /\ days' = YearDays /\ pc' = "gar_download"
              /\ cmpPath' = "average"
              /\ UNCHANGED <<comparison_rate, cmpResult, fetched>>
         ELSE IF COMPARISON_TYPE = "MONTH_AVERAGE"
         THEN /\ days' = MonthDays /\ pc' = "gar_download"
              /\ cmpPath' = "average"
              /\ UNCHANGED <<comparison_rate, cmpResult, fetched>>
         ELSE IF COMPARISON_TYPE = "CUSTOM_VALUE"
         THEN /\ comparison_rate' = CUSTOM_VALUE
              /\ cmpPath' = "custom_value"
              /\ cmpResult' = "value"
              /\ fetched' = [fetched EXCEPT !.baseline = CUSTOM_VALUE]
              /\ pc' = "compare"
              /\ UNCHANGED days
         ELSE IF COMPARISON_TYPE = "CUSTOM_DAYS_AVERAGE"
         THEN /\ days' = CUSTOM_DAYS /\ pc' = "gar_download"
              /\ cmpPath' = "average"
              /\ UNCHANGED <<comparison_rate, cmpResult, fetched>>
         ELSE /\ cmpPath' = "unknown_type"
              /\ cmpResult' = "raised"
              /\ pc' = "main_except"
              /\ UNCHANGED <<comparison_rate, days, fetched>>
    /\ UNCHANGED <<config, prevLogged, retry_delay, delayLens, current_rate, info, rate, data, sendLocals,
                   orphan, quotePath, quoteResult, downloads, sendHist, logged,
                   sleeps>>

\* lines 86-90: download the closes of the last `days` days (at most one
\* close a day); the download raises or yields a possibly empty series
Download ==
    /\ pc = "gar_download"
    /\ downloads' = downloads \cup {"range"}
    /\ \/ \E s \in Series :
            /\ Len(s) <= days
            /\ data' = s
            /\ cmpPath' = IF s = <<>> THEN "series_empty" ELSE "series"
            /\ pc' = "gar_mean"
       \/ /\ cmpPath' = "series_raised"
          /\ pc' = "gar_except"
          /\ UNCHANGED data
    /\ UNCHANGED <<config, prevLogged, callNotes, mainLocals, info, rate, days, sendLocals,
                   orphan, quotePath, quoteResult, cmpResult, sendHist, logged,
                   sleeps>>

\* lines 91-93: return the mean; main binds comparison_rate
AverageRate ==
    /\ pc = "gar_mean"
    /\ comparison_rate' = Mean(data)
    /\ cmpResult' = "value"
    /\ fetched' = [fetched EXCEPT !.baseline = Mean(data)]
    /\ data' = NoData /\ days' = 0
    /\ pc' = "compare"
    /\ UNCHANGED <<config, prevLogged, retry_delay, delayLens, current_rate, info, rate, sendLocals, orphan,
                   quotePath, quoteResult, cmpPath, downloads, sendHist, logged,
                   sleeps>>

\* lines 94-96: log the error and re-raise it into main's try block
GarExcept ==
    /\ pc = "gar_except"
    /\ logged' = logged \cup {"average_error"}
    /\ cmpResult' = "raised"
    /\ data' = NoData /\ days' = 0
    /\ pc' = "main_except"
    /\ UNCHANGED <<config, prevLogged, callNotes, mainLocals, info, rate, sendLocals, orphan,
                   quotePath, quoteResult, cmpPath, downloads, sendHist, sleeps>>

\* variant of Compare: no second alert right after a cycle that sent one
CompareOncePerDrop ==
    /\ pc = "compare"
    /\ IF Less(current_rate, comparison_rate) /\ "mail_sent" \notin prevLogged
         THEN /\ sendCalls' = sendCalls + 1
              /\ max_retries' = DefaultMaxRetries
              /\ retry_delay' = DefaultRetryDelay
              /\ attempt' = 0 /\ exc' = NoExc /\ sock' = "none"
              /\ pc' = "send_for"
              /\ UNCHANGED <<logged, sleeps>>
         ELSE /\ logged' = logged \cup {"no_alert", "wait"}
              /\ sleeps' = sleeps + 1
              /\ pc' = "sleep_150"
              /\ UNCHANGED <<sendCalls, sendLocals, retry_delay>>
    /\ UNCHANGED <<config, prevLogged, delayLens, fetched, mainLocals, fetchLocals, orphan,
                   fetchHist, attempts, failures, delays, delivered, raisedExc>>

\* --------------------------------------------------------------- main()
\* lines 138-140 and 146-150: the alert decision.  Below the baseline: build
\* the mail and call send_email(subject, body) with the default max_retries.
\* Otherwise: log, then lines 149-150 log the wait and sleep CHECK_INTERVAL.
Compare ==
    /\ pc = "compare"
    /\ IF Less(current_rate, comparison_rate)
         THEN /\ sendCalls' = sendCalls + 1
              /\ max_retries' = DefaultMaxRetries
              /\ retry_delay' = DefaultRetryDelay
              /\ attempt' = 0 /\ exc' = NoExc /\ sock' = "none"
              /\ pc' = "send_for"
              /\ UNCHANGED <<logged, sleeps>>
         ELSE /\ logged' = logged \cup {"no_alert", "wait"}
              /\ sleeps' = sleeps + 1
              /\ pc' = "sleep_150"
              /\ UNCHANGED <<sendCalls, sendLocals, retry_delay>>
    /\ UNCHANGED <<config, prevLogged, delayLens, fetched, mainLocals, fetchLocals, orphan,
                   fetchHist, attempts, failures, delays, delivered, raisedExc>>

\* line 143 after send_email returned (its frame is gone), then lines 149-150
AfterSendReturned ==
    /\ pc = "send_returned"
    /\ logged' = logged \cup {"mail_sent", "wait"}
    /\ sleeps' = sleeps + 1
    /\ attempt' = 0 /\ exc' = NoExc
    /\ pc' = "sleep_150"
    /\ UNCHANGED <<config, prevLogged, callNotes, mainLocals, fetchLocals, max_retries, sock,
                   orphan, fetchHist, sendHist>>

\* variant of AfterSendRaised: no inner try, the exception reaches line 151
AfterSendRaisedUncaught ==
    /\ pc = "send_raised"
    /\ pc' = "main_except"
    /\ UNCHANGED <<config, prevLogged, callNotes, mainLocals, fetchLocals, sendLocals, orphan,
                   fetchHist, sendHist, logged, sleeps>>

\* lines 144-145 after send_email raised (its frame is gone), then lines 149-150
AfterSendRaised ==
    /\ pc = "send_raised"
    /\ logged' = logged \cup {"send_failed", "wait"}
    /\ sleeps' = sleeps + 1
    /\ attempt' = 0 /\ exc' = NoExc
    /\ pc' = "sleep_150"
    /\ UNCHANGED <<config, prevLogged, callNotes, mainLocals, fetchLocals, max_retries, sock,
                   orphan, fetchHist, sendHist>>

\* variant of MainExcept: the handler logs and lets the exception end main()
MainExceptExits ==
    /\ pc = "main_except"
    /\ logged' = logged \cup {"main_error"}
    /\ pc' = "exited"
    /\ UNCHANGED <<config, prevLogged, callNotes, mainLocals, fetchLocals, sendLocals, orphan,
                   fetchHist, sendHist, sleeps>>

\* variant of MainExcept: the handler logs and the loop restarts without sleeping
MainExceptNoSleep ==
    /\ pc = "main_except"
    /\ pc' = "get_current_rate"
    /\ quotePath' = "none" /\ quoteResult' = "none"
    /\ cmpPath' = "none" /\ cmpResult' = "none" /\ downloads' = {}
    /\ sendCalls' = 0 /\ attempts' = 0 /\ failures' = 0 /\ delays' = 0
    /\ delivered' = 0
    /\ raisedExc' = NoExc
    /\ logged' = {} /\ sleeps' = 0
    /\ prevLogged' = logged \cup {"main_error"}
    /\ delayLens' = {} /\ fetched' = NoFetch
    /\ UNCHANGED <<config, mainLocals, fetchLocals, sendLocals, orphan, retry_delay>>

\* lines 151-154: an exception of get_current_rate() or get_comparison_rate()
MainExcept ==
    /\ pc = "main_except"
    /\ logged' = logged \cup {"main_error", "retry_wait"}
    /\ sleeps' = sleeps + 1
    /\ pc' = "sleep_154"
    /\ UNCHANGED <<config, prevLogged, callNotes, mainLocals, fetchLocals, sendLocals, orphan,
                   fetchHist, sendHist>>

\* time.sleep(CHECK_INTERVAL) returns and `while True` starts the next cycle;
\* the locals of main keep their values, the record of the cycle starts anew
NextCycle ==
    /\ pc \in {"sleep_150", "sleep_154"}
    /\ pc' = "get_current_rate"
    /\ quotePath' = "none" /\ quoteResult' = "none"
    /\ cmpPath' = "none" /\ cmpResult' = "none" /\ downloads' = {}
    /\ sendCalls' = 0 /\ attempts' = 0 /\ failures' = 0 /\ delays' = 0
    /\ delivered' = 0
    /\ raisedExc' = NoExc
    /\ logged' = {} /\ sleeps' = 0
    /\ prevLogged' = logged
    /\ delayLens' = {} /\ fetched' = NoFetch
    /\ UNCHANGED <<config, mainLocals, fetchLocals, sendLocals, orphan, retry_delay>>

\* ---------------------------------------------------------- send_email()
\* line 100: attempt in range(max_retries)
InRange(att, n) == att < n

\* variants of ShouldRetry: off by one in either direction
ShouldRetryAlways(att, n) == att < n
ShouldRetryEarly(att, n) == att < n - 2

\* line 124: attempt < max_retries - 1
ShouldRetry(att, n) == att < n - 1

\* variant of DelayLength: the delay grows with the attempt number
DelayBackoff(att, d) == d * (att + 1)

\* line 126: time.sleep(retry_delay), whatever the attempt
DelayLength(att, d) == d

\* the exception an attempt ends with (attempts are numbered from 1 in the log)
Failure(att, stage) == [attempt |-> att + 1, stage |-> stage]

\* lines 100-108: the next iteration of the for loop starts an attempt; when
\* range(max_retries) is exhausted the function falls off its end and returns
SendFor ==
    /\ pc = "send_for"
    /\ IF InRange(attempt, max_retries)
         THEN /\ attempts' = attempts + 1
              /\ pc' = "smtp_init"
         ELSE /\ pc' = "send_returned"
              /\ UNCHANGED attempts
    /\ UNCHANGED <<config, prevLogged, callNotes, mainLocals, fetchLocals, sendLocals, orphan, fetchHist,
                   sendCalls, failures, delays, delivered, raisedExc, logged, sleeps>>

\* line 110: smtplib.SMTP(SMTP_SERVER, SMTP_PORT, timeout=30) connects when a
\* host is given; when that fails no connection is left and the with block is
\* not entered
SmtpInit ==
    /\ pc = "smtp_init"
    /\ \/ /\ sock' = IF SMTP_SERVER = "host" THEN "open" ELSE "none"
          /\ pc' = "smtp_connect"
          /\ UNCHANGED <<exc, failures>>
       \/ /\ SMTP_SERVER = "host"
          /\ exc' = Failure(attempt, "init")
          /\ failures' = failures + 1
          /\ pc' = "send_except"
          /\ UNCHANGED sock
    /\ UNCHANGED <<config, prevLogged, callNotes, mainLocals, fetchLocals, max_retries, attempt,
                   orphan, fetchHist, sendCalls, attempts, delays, delivered,
                   raisedExc, logged, sleeps>>

\* lines 111-113: server.connect(SMTP_SERVER, SMTP_PORT) opens a connection and
\* rebinds the server's socket to it without closing the one the constructor
\* opened, which is left to the garbage collector.  The call raises before the
\* socket is rebound, or after it (the new connection is then closed).
SmtpConnect ==
    /\ pc = "smtp_connect"
    /\ \/ /\ orphan' = (orphan \/ sock = "open")
          /\ sock' = "open"
          /\ pc' = "smtp_starttls"
          /\ UNCHANGED exc
       \/ /\ exc' = Failure(attempt, "connect")
          /\ pc' = "smtp_exit"
          /\ \/ UNCHANGED <<sock, orphan>>
             \/ /\ orphan' = (orphan \/ sock = "open")
                /\ sock' = "none"
    /\ UNCHANGED <<config, prevLogged, callNotes, mainLocals, fetchLocals, max_retries, attempt,
                   fetchHist, sendHist, logged, sleeps>>

\* lines 114-115: server.starttls()
SmtpStartTls ==
    /\ pc = "smtp_starttls"
    /\ \/ /\ pc' = "smtp_login"
          /\ UNCHANGED exc
       \/ /\ exc' = Failure(attempt, "starttls")
          /\ pc' = "smtp_exit"
    /\ UNCHANGED <<config, prevLogged, callNotes, mainLocals, fetchLocals, max_retries, attempt, sock,
                   orphan, fetchHist, sendHist, logged, sleeps>>

\* lines 116-117: server.login(SENDER_EMAIL, SENDER_PASSWORD)
SmtpLogin ==
    /\ pc = "smtp_login"
    /\ \/ /\ pc' = "smtp_send_message"
          /\ UNCHANGED exc
       \/ /\ exc' = Failure(attempt, "login")
          /\ pc' = "smtp_exit"
    /\ UNCHANGED <<config, prevLogged, callNotes, mainLocals, fetchLocals, max_retries, attempt, sock,
                   orphan, fetchHist, sendHist, logged, sleeps>>

\* lines 118-119: server.send_message(message) hands the mail to the server
SmtpSendMessage ==
    /\ pc = "smtp_send_message"
    /\ \/ /\ delivered' = delivered + 1
          /\ pc' = "smtp_exit"
          /\ UNCHANGED exc
       \/ /\ exc' = Failure(attempt, "send_message")
          /\ pc' = "smtp_exit"
          /\ UNCHANGED delivered
    /\ UNCHANGED <<config, prevLogged, callNotes, mainLocals, fetchLocals, max_retries, attempt, sock,
                   orphan, fetchHist, sendCalls, attempts, failures, delays,
                   raisedExc, logged, sleeps>>

\* the end of the with block of line 110: the context manager sends QUIT and
\* closes the server's socket, on the normal path and on an exception.  It
\* raises itself when the reply to QUIT is not 221.  Without an exception
\* lines 120-121 log the success and return.
SmtpExit ==
    /\ pc = "smtp_exit"
    /\ sock' = "none"
    /\ \/ /\ exc = NoExc
          /\ logged' = logged \cup {"send_ok"}
          /\ pc' = "send_returned"
          /\ UNCHANGED <<exc, failures>>
       \/ /\ exc # NoExc
          /\ failures' = failures + 1
          /\ pc' = "send_except"
          /\ UNCHANGED <<exc, logged>>
       \/ /\ exc' = Failure(attempt, "exit")
          /\ failures' = failures + 1
          /\ pc' = "send_except"
          /\ UNCHANGED logged
    /\ UNCHANGED <<config, prevLogged, callNotes, mainLocals, fetchLocals, max_retries, attempt,
                   orphan, fetchHist, sendCalls, attempts, delays, delivered,
                   raisedExc, sleeps>>

\* lines 122-129: log the error; not the last attempt: sleep retry_delay;
\* the last attempt: re-raise the exception being handled
SendExcept ==
    /\ pc = "send_except"
    /\ IF ShouldRetry(attempt, max_retries)
         THEN /\ delays' = delays + 1
              /\ delayLens' = delayLens \cup {DelayLength(attempt, retry_delay)}
              /\ pc' = "retry_sleep"
              /\ UNCHANGED raisedExc
         ELSE /\ raisedExc' = exc
              /\ pc' = "send_raised"
              /\ UNCHANGED <<delays, delayLens>>
    /\ UNCHANGED <<config, prevLogged, retry_delay, fetched, mainLocals, fetchLocals, sendLocals, orphan, fetchHist,
                   sendCalls, attempts, failures, delivered, logged, sleeps>>

\* line 126 returns: the except clause ends (its exception is unbound) and the
\* for loop takes the next value of range(max_retries)
RetryWake ==
    /\ pc = "retry_sleep"
    /\ attempt' = attempt + 1
    /\ exc' = NoExc
    /\ pc' = "send_for"
    /\ UNCHANGED <<config, prevLogged, callNotes, mainLocals, fetchLocals, max_retries, sock, orphan,
                   fetchHist, sendHist, logged, sleeps>>

\* the garbage collector closes an unreferenced connection, at any time
Finalize ==
    /\ orphan
    /\ orphan' = FALSE
    /\ UNCHANGED <<config, prevLogged, callNotes, pc, mainLocals, fetchLocals, sendLocals,
                   fetchHist, sendHist, logged, sleeps>>

\* ------------------------------------------------------- specifications
SendStep ==
    \/ SendFor \/ SmtpInit \/ SmtpConnect \/ SmtpStartTls \/ SmtpLogin
    \/ SmtpSendMessage \/ SmtpExit \/ SendExcept \/ RetryWake \/ Finalize

Next ==
    \/ GetInfo \/ SelectRate \/ ReturnRate \/ GcrExcept
    \/ GetComparisonRate \/ Download \/ AverageRate \/ GarExcept
    \/ Compare \/ AfterSendReturned \/ AfterSendRaised \/ MainExcept \/ NextCycle
    \/ SendStep

Spec == Init /\ [][Next]_vars

\* the same program under a scheduler that always lets it take its next step
FairSpec == Init /\ [][Next]_vars /\ WF_vars(Next)

\* one call send_email(subject, body, max_retries=n), for every n up to MaxRetries
SendInit ==
    /\ COMPARISON_TYPE = "YEAR_AVERAGE"
    /\ CUSTOM_VALUE = R(DefaultCustomValue)
    /\ CUSTOM_DAYS = DefaultCustomDays
    /\ SMTP_SERVER \in {"unset", "host"}
    /\ LocalsInit
    /\ pc = "send_for"
    /\ max_retries \in 0..MaxRetries
    /\ retry_delay \in {1, DefaultRetryDelay}
    /\ sendCalls = 1

SendNext == SendStep

SendSpec == SendInit /\ [][SendNext]_vars

TypeOK ==
    /\ pc \in {"get_current_rate", "gcr_select", "gcr_return", "gcr_except",
               "get_comparison_rate", "gar_download", "gar_mean", "gar_except",
               "compare", "main_except", "sleep_150", "sleep_154",
               "send_for", "smtp_init", "smtp_connect", "smtp_starttls",
               "smtp_login", "smtp_send_message", "smtp_exit", "send_except",
               "retry_sleep", "send_returned", "send_raised"}
    /\ sock \in {"none", "open"}
    /\ orphan \in BOOLEAN
    /\ attempt \in 0..MaxRetries + 1
    /\ exc.stage \in Stages \cup {"none"}

\* ------------------------------------------------------------ properties
SendPcs == {"send_for", "smtp_init", "smtp_connect", "smtp_starttls", "smtp_login",
            "smtp_send_message", "smtp_exit", "send_except", "retry_sleep"}
SleepPcs == {"sleep_150", "sleep_154"}

\* current_rate is strictly below comparison_rate, as numbers
Below ==
    /\ current_rate.den > 0 /\ comparison_rate.den > 0
    /\ current_rate.num * comparison_rate.den < comparison_rate.num * current_rate.den

\* C1: in a cycle where both get_current_rate() and get_comparison_rate()
\* returned a value, send_email is invoked (once) exactly when current_rate is
\* strictly below comparison_rate; equal rates make no send attempt.
C1_StrictAlert ==
    /\ sendCalls <= 1
    /\ sendCalls = 1 => cmpResult = "value"
    /\ (cmpResult = "value" /\ pc # "compare") =>
          /\ (sendCalls = 1 <=> Below)
          /\ (~Below => attempts = 0)
          /\ (SameValue(current_rate, comparison_rate) => sendCalls = 0)

C1_Witness ==
    /\ pc = "sleep_150" /\ cmpPath = "series" /\ comparison_rate.den > 1
    /\ Below /\ sendCalls = 1 /\ attempts >= 1

\* C2: a call send_email(max_retries = n), n >= 1, that raises has made exactly
\* n attempts, all failed; a call that returns has made exactly k <= n
\* attempts, of which the first k-1 failed and the k-th succeeded; an attempt
\* that succeeded is the last one.
C2_ExactAttempts ==
    /\ attempts <= max_retries
    /\ pc = "send_raised" => attempts = max_retries /\ failures = max_retries
    /\ (pc = "send_returned" /\ max_retries >= 1) =>
          /\ attempts = failures + 1
          /\ "send_ok" \in logged
    /\ "send_ok" \in logged => pc = "send_returned"
    /\ pc = "send_raised" => max_retries >= 1

C2_Witness ==
    /\ pc = "send_returned" /\ max_retries = 3 /\ attempts = 2 /\ failures = 1

\* C3: when send_email raises in a cycle, main catches it there: it logs the
\* failure and takes the line-150 sleep of that cycle, the only step after the
\* sleep is the next cycle's get_current_rate() call, and that call is reached.
C3_SendFailureCaught ==
    /\ [][/\ (pc = "send_raised" /\ pc' # pc) =>
                (pc' = "sleep_150" /\ sleeps' = sleeps + 1 /\ "send_failed" \in logged')
          /\ (pc = "sleep_150" /\ pc' # pc) => pc' = "get_current_rate"]_vars
    /\ (pc = "send_raised") ~> (pc = "get_current_rate" /\ "send_failed" \in prevLogged)

C3_Witness ==
    /\ pc = "get_current_rate" /\ "send_failed" \in prevLogged
    /\ prevLogged \cap {"main_error", "mail_sent"} = {}

\* C4: main() has no terminal state: whatever the fetches and the mail
\* transport do, the loop keeps alternating between checking and sleeping.
C4_NoTerminalState ==
    /\ []<>(pc = "get_current_rate")
    /\ []<>(pc \in SleepPcs)
    /\ (pc \in SleepPcs) ~> (pc = "get_current_rate")

C4_Witness ==
    /\ pc = "get_current_rate" /\ "main_error" \in prevLogged

\* C5 (as claimed): when the series fetched for an averaging mode is empty,
\* get_comparison_rate() raises instead of returning a value, and the cycle
\* sends no email.
C5_EmptySeriesFails ==
    (cmpPath = "series_empty" /\ pc # "gar_mean") =>
        (cmpResult = "raised" /\ sendCalls = 0)

\* C6: a cycle where get_current_rate() raises does not call
\* get_comparison_rate() and makes no send attempt; a cycle where
\* get_comparison_rate() raises makes no send attempt; both log the error,
\* sleep CHECK_INTERVAL once (line 154) and then retry from the quote fetch.
C6_FetchFailure ==
    /\ [](quoteResult = "raised" =>
            /\ cmpPath = "none" /\ cmpResult = "none" /\ "range" \notin downloads
            /\ sendCalls = 0 /\ attempts = 0
            /\ pc \in {"main_except", "sleep_154"})
    /\ [](cmpResult = "raised" =>
            /\ sendCalls = 0 /\ attempts = 0
            /\ pc \in {"main_except", "sleep_154"})
    /\ [](pc = "sleep_154" =>
            /\ "raised" \in {quoteResult, cmpResult}
            /\ "main_error" \in logged /\ sleeps = 1)
    /\ [][/\ (pc = "main_except" /\ pc' # pc) => pc' = "sleep_154"
          /\ (pc = "sleep_154" /\ pc' # pc) =>
                (pc' = "get_current_rate" /\ quoteResult' = "none")]_vars

C6_Witness ==
    /\ pc = "get_current_rate" /\ "quote_error" \in prevLogged
    /\ "main_error" \in prevLogged

\* C7 (as claimed): no connection opened by an attempt is open when the next
\* attempt starts, when the retry delay starts, or when send_email returns or
\* raises.
C7_ConnectionsClosed ==
    pc \in {"send_for", "smtp_init", "send_except", "retry_sleep",
            "send_returned", "send_raised"} => (sock = "none" /\ ~orphan)

\* C8 (as claimed): an attempt that ends with an exception has not delivered
\* the message, so one send_email call delivers the mail at most once.
C8_AtMostOnce ==
    /\ delivered <= 1
    /\ pc = "send_except" => delivered = 0

\* C9: when all attempts fail, the exception send_email raises is the error of
\* the last attempt (attempt number max_retries), not of an earlier one.
C9_LastError ==
    pc = "send_raised" =>
        /\ raisedExc.attempt = max_retries
        /\ raisedExc.attempt = attempts
        /\ raisedExc.stage \in Stages
        /\ raisedExc = exc

C9_Witness ==
    /\ pc = "send_raised" /\ max_retries = 3 /\ raisedExc.attempt = 3
    /\ raisedExc.stage = "login"

LiveUnavailable == quotePath \notin {"none", "info", "regularMarketPrice", "last"}

\* C10 (as claimed): whenever the live price is unavailable, for any reason,
\* get_current_rate() falls back to the daily close, and it fails only when
\* the daily close could not be obtained either.
C10_FallbackAlways ==
    quoteResult # "none" =>
        /\ LiveUnavailable => "period_1d" \in downloads
        /\ quoteResult = "raised" => quotePath \in {"download_raised", "download_empty"}

\* C10 (amended): get_current_rate() returns info['regularMarketPrice'] when
\* the fetched ticker info has that key, otherwise info['last'] when it has
\* that key; it falls back to the most recent daily close only when the info
\* was fetched and has neither key; it fails when fetching the info raises
\* (no fallback is tried), or when the fallback download raises or is empty.
C10_FallbackOnMissingKeys ==
    /\ pc = "gcr_return" =>
          /\ "regularMarketPrice" \in DOMAIN info =>
                (rate = R(info["regularMarketPrice"]) /\ "period_1d" \notin downloads)
          /\ ("regularMarketPrice" \notin DOMAIN info /\ "last" \in DOMAIN info) =>
                (rate = R(info["last"]) /\ "period_1d" \notin downloads)
          /\ DOMAIN info = {} =>
                /\ "period_1d" \in downloads
                /\ data # <<>>
                /\ rate = R(data[Len(data)])
    /\ pc = "gcr_except" =>
          /\ quotePath \in {"info_raised", "download_raised", "download_empty"}
          /\ quotePath = "info_raised" => "period_1d" \notin downloads
          /\ quotePath # "info_raised" =>
                (DOMAIN info = {} /\ "period_1d" \in downloads /\ data = <<>>)
    /\ quoteResult = "value" =>
          /\ quotePath \in {"regularMarketPrice", "last", "close"}
          /\ (quotePath = "close" <=> "period_1d" \in downloads)
    /\ quoteResult = "raised" =>
          quotePath \in {"info_raised", "download_raised", "download_empty"}

C10_Witness ==
    /\ pc = "gcr_return" /\ quotePath = "close"
    /\ Len(data) = 2 /\ data[1] # data[2]

\* C11: with COMPARISON_TYPE = CUSTOM_VALUE, get_comparison_rate() returns
\* exactly CUSTOM_VALUE and never enters get_average_rate() or its download,
\* in the first cycle and in every later one.
C11_CustomValueDirect ==
    COMPARISON_TYPE = "CUSTOM_VALUE" =>
        /\ "range" \notin downloads
        /\ pc \notin {"gar_download", "gar_mean", "gar_except"}
        /\ cmpPath \in {"none", "custom_value"}
        /\ cmpResult \in {"none", "value"}
        /\ cmpResult = "value" =>
              (comparison_rate = CUSTOM_VALUE /\ fetched.baseline = CUSTOM_VALUE)

C11_Witness ==
    /\ COMPARISON_TYPE = "CUSTOM_VALUE" /\ CUSTOM_VALUE = R(MaxPrice)
    /\ pc = "compare" /\ comparison_rate = R(MaxPrice)
    /\ "wait" \in prevLogged

\* C12: a COMPARISON_TYPE outside the four known modes does not stop main()
\* from starting; the error is raised when get_comparison_rate() is called,
\* after the quote was fetched, it is handled by lines 151-154 (log, sleep), no
\* send attempt is ever made, and the loop goes on to the next cycle.
C12_UnknownTypeDeferred ==
    /\ [](COMPARISON_TYPE \notin KnownTypes =>
            /\ sendCalls = 0 /\ attempts = 0 /\ delivered = 0
            /\ pc \notin SendPcs \cup {"send_returned", "send_raised", "compare"}
            /\ "range" \notin downloads
            /\ cmpResult # "value"
            /\ cmpPath \in {"none", "unknown_type"}
            /\ cmpPath = "unknown_type" =>
                  /\ quoteResult = "value" /\ cmpResult = "raised"
                  /\ pc \in {"main_except", "sleep_154"}
            /\ pc = "sleep_154" => ("main_error" \in logged /\ sleeps = 1))
    /\ [][(COMPARISON_TYPE \notin KnownTypes /\ pc' # pc) =>
            /\ pc = "get_comparison_rate" => pc' = "main_except"
            /\ pc = "main_except" => pc' = "sleep_154"
            /\ pc = "sleep_154" => pc' = "get_current_rate"]_vars

C12_Witness ==
    /\ COMPARISON_TYPE \notin KnownTypes
    /\ pc = "get_current_rate"
    /\ "main_error" \in prevLogged /\ "quote_error" \notin prevLogged

\* C13: inside one send_email call every failed attempt that is not the last is
\* followed by exactly one delay, every delay has the length retry_delay, and no
\* delay follows a successful attempt or the last failed one: a call whose n
\* attempts all fail has waited n - 1 delays.
C13_FixedDelayBetweenAttempts ==
    /\ delayLens \subseteq {retry_delay}
    /\ delays = 0 <=> delayLens = {}
    /\ pc \in {"send_for", "smtp_init", "smtp_connect", "smtp_starttls", "smtp_login",
               "smtp_send_message", "smtp_exit"} => delays = failures
    /\ pc = "send_except" => delays = failures - 1
    /\ pc = "retry_sleep" => (delays = failures /\ failures < max_retries)
    /\ pc = "send_returned" => (delays = failures /\ delays = attempt)
    /\ pc = "send_raised" =>
          (failures = max_retries /\ delays = max_retries - 1)

C13_Witness ==
    /\ pc = "send_raised" /\ max_retries = 3 /\ failures = 3 /\ delays = 2
    /\ delayLens = {retry_delay}

\* C14: every cycle takes exactly one CHECK_INTERVAL sleep, as its last step,
\* on every path (no alert, alert sent, alert failed, quote fetch failed,
\* baseline failed): the next cycle starts only from a sleep, and nothing of
\* the cycle runs after the sleep.
C14_OneSleepPerCycle ==
    /\ [](sleeps <= 1 /\ (sleeps = 1 <=> pc \in SleepPcs))
    /\ [](pc \in SleepPcs =>
            \/ /\ pc = "sleep_150"
               /\ logged \cap {"no_alert", "mail_sent", "send_failed"} # {}
               /\ "wait" \in logged
            \/ /\ pc = "sleep_154"
               /\ "raised" \in {quoteResult, cmpResult}
               /\ "retry_wait" \in logged)
    /\ [][pc' # pc =>
            /\ pc' = "get_current_rate" => (pc \in SleepPcs /\ sleeps = 1)
            /\ pc \in SleepPcs => (pc' = "get_current_rate" /\ sleeps' = 0)]_vars

C14_Witness ==
    /\ pc = "sleep_154" /\ cmpPath = "series_raised" /\ sleeps = 1
    /\ "wait" \in prevLogged

\* the value fetched for the quote in this cycle is strictly below the value
\* fetched for the baseline in this cycle
FetchedBelow ==
    /\ fetched.quote.den > 0 /\ fetched.baseline.den > 0
    /\ fetched.quote.num * fetched.baseline.den
         < fetched.baseline.num * fetched.quote.den

\* C15: the alert decision of a cycle is a function of the two values fetched
\* in that cycle: main compares exactly those, and send_email is invoked once
\* whenever the fetched rate is below the fetched baseline, also in a cycle that
\* follows one that alerted (delivered or not).
C15_DecisionFromThisCycle ==
    /\ quoteResult = "value" => current_rate = fetched.quote
    /\ cmpResult = "value" => comparison_rate = fetched.baseline
    /\ (cmpResult = "value" /\ pc # "compare") =>
          IF FetchedBelow THEN sendCalls = 1 ELSE sendCalls = 0

C15_Witness ==
    /\ pc = "send_for" /\ sendCalls = 1 /\ attempts = 0 /\ FetchedBelow
    /\ "mail_sent" \in prevLogged

\* C16 (as claimed): for every max_retries >= 0, send_email returns normally
\* only if one of its attempts completed send_message.
C16_ReturnMeansSent ==
    pc = "send_returned" => delivered >= 1

====
